---- MODULE Spec2Model ----
(***************************************************************************)
(* Loan lifecycle of smart-loan-recovery: LoanTracker (src/src/loan.rs)    *)
(* over the loans table of Db (src/src/db.rs).                             *)
(*                                                                         *)
(* Time is counted in days.  Utc::now() is a clock that never runs         *)
(* backwards; it is read by the handlers and advanced by Tick.             *)
(* Option<T> is a sequence of length 0 (None) or 1 (Some), and Rust's unit *)
(* value () is the empty tuple.                                            *)
(***************************************************************************)
EXTENDS Integers, Sequences, FiniteSets, TLC

VARIABLES
    now,     \* the wall clock, in days
    loans,   \* the loans table: loan id -> Loan
    last,    \* the last handler call (see Call)
    pc,      \* concurrent workers: position of each worker in its handler
    loc,     \* concurrent workers: local variables of each worker
    users    \* the users table: user id -> row of the table

vars == <<now, loans, last, pc, loc, users>>

----------------------------------------------------------------------------
(* Bounds of the model *)

MaxLoans == 2
MaxTime == 60
ClockStep == 30
MaxDuration == 2
MaxRacedLoans == 1
MaxHistory == 4
MaxUsers == 2
MaxApiLoans == 1

(* Duration::days(30 * m), loan.rs:28 *)
DaysPerInstallment == 30

LoanIds == 1..MaxLoans
Durations == (0 - 1)..MaxDuration
Borrowers == {"alice"}
Lenders == {"bob"}
Principals == {10000}
InterestRates == {55}

None == <<>>
Some(x) == <<x>>

LoanStatus == {"Active", "Overdue", "Defaulted", "Repaid"}

----------------------------------------------------------------------------
(* Db: the loans table *)

EmptyTable == <<>>

(* mutant: the table is rewritten with the saved row alone *)
save_loan_replacing_table(table, loan) ==
    [i \in {loan.id} |-> loan]

save_loan(table, loan) ==
    [i \in (DOMAIN table) \cup {loan.id} |->
        IF i = loan.id THEN loan ELSE table[i]]

load_loan(table, id) ==
    IF id \in DOMAIN table THEN Some(table[id]) ELSE None

(* SELECT ... FROM loans carries no ORDER BY: the rows come in some order *)
RowOrders(table) ==
    {o \in [1..Cardinality(DOMAIN table) -> DOMAIN table] :
        \A i, j \in DOMAIN o : i # j => o[i] # o[j]}

load_all_loans(table, order) ==
    [i \in 1..Len(order) |-> table[order[i]]]

----------------------------------------------------------------------------
(* LoanTracker: the pure part of each handler *)

(* mutant: the loop runs over 0..duration_months-1 *)
build_schedule_from_zero(t, duration_months) ==
    [m \in 1..duration_months |-> t + DaysPerInstallment * (m - 1)]

build_schedule(t, duration_months) ==
    [m \in 1..duration_months |-> t + DaysPerInstallment * m]

(* mutant: start_date is the first due date *)
new_loan_started_at_first_due(id, borrower_id, lender_id, principal, interest_rate, duration_months, t) ==
    [id |-> id,
     borrower_id |-> borrower_id,
     lender_id |-> lender_id,
     principal |-> principal,
     interest_rate |-> interest_rate,
     disbursement_date |-> t,
     repayment_schedule |-> build_schedule(t, duration_months),
     start_date |-> t + DaysPerInstallment,
     last_repayment_date |-> None,
     status |-> "Active"]

new_loan(id, borrower_id, lender_id, principal, interest_rate, duration_months, t) ==
    [id |-> id,
     borrower_id |-> borrower_id,
     lender_id |-> lender_id,
     principal |-> principal,
     interest_rate |-> interest_rate,
     disbursement_date |-> t,
     repayment_schedule |-> build_schedule(t, duration_months),
     start_date |-> t,
     last_repayment_date |-> None,
     status |-> "Active"]

(* repayment_schedule.last(): None on an empty schedule *)
schedule_last(loan) ==
    IF Len(loan.repayment_schedule) = 0
    THEN None
    ELSE Some(loan.repayment_schedule[Len(loan.repayment_schedule)])

(* mutant: >= where the code has > *)
repaid_loan_on_due_date(loan, t1, t2) ==
    [loan EXCEPT
        !.last_repayment_date = Some(t1),
        !.status = IF t2 >= loan.repayment_schedule[Len(loan.repayment_schedule)]
                   THEN "Repaid" ELSE "Active"]

(* mutant: last_repayment_date is not assigned *)
repaid_loan_unstamped(loan, t1, t2) ==
    [loan EXCEPT
        !.status = IF t2 > loan.repayment_schedule[Len(loan.repayment_schedule)]
                   THEN "Repaid" ELSE "Active"]

(* mutant: the repayment restarts the loan *)
repaid_loan_restarted(loan, t1, t2) ==
    [loan EXCEPT
        !.last_repayment_date = Some(t1),
        !.start_date = t1,
        !.status = IF t2 > loan.repayment_schedule[Len(loan.repayment_schedule)]
                   THEN "Repaid" ELSE "Active"]

(* loan.rs:50-55; t1 and t2 are the two readings of Utc::now().
   Called only where schedule_last(loan) is Some. *)
repaid_loan(loan, t1, t2) ==
    [loan EXCEPT
        !.last_repayment_date = Some(t1),
        !.status = IF t2 > schedule_last(loan)[1] THEN "Repaid" ELSE "Active"]

(* mutant: a loan repaid since its first due date is not flagged *)
is_overdue_since_last_repayment(loan, t) ==
    /\ loan.status = "Active"
    /\ t > loan.repayment_schedule[1]
    /\ \/ loan.last_repayment_date = None
       \/ loan.last_repayment_date[1] <= loan.repayment_schedule[1]

(* mutant: >= where the code has > *)
is_overdue_on_due_date(loan, t) ==
    loan.status = "Active" /\ t >= loan.repayment_schedule[1]

(* mutant: the status is not looked at *)
is_overdue_any_status(loan, t) ==
    t > loan.repayment_schedule[1]

(* mutant: an Overdue loan is flagged again *)
is_overdue_unless_repaid(loan, t) ==
    loan.status \in {"Active", "Overdue"} /\ t > loan.repayment_schedule[1]

(* loan.rs:74, the condition of the sweep.  Called only where the schedule
   is not empty or the status is not Active (&& does not evaluate its right
   side then). *)
is_overdue(loan, t) ==
    loan.status = "Active" /\ t > loan.repayment_schedule[1]

(* loan.rs:74: repayment_schedule[0] on an empty schedule panics *)
index_panics(loan) ==
    loan.status = "Active" /\ Len(loan.repayment_schedule) = 0

(* mutant: the sweep writes Repaid *)
flagged_loan_repaid(loan) == [loan EXCEPT !.status = "Repaid"]

(* mutant: the sweep writes Defaulted *)
flagged_loan_defaulted(loan) == [loan EXCEPT !.status = "Defaulted"]

(* mutant: the sweep clears the repayment date *)
flagged_loan_clears_repayment(loan) ==
    [loan EXCEPT !.status = "Overdue", !.last_repayment_date = None]

(* loan.rs:75 *)
flagged_loan(loan) == [loan EXCEPT !.status = "Overdue"]

(* mutant: the row of the save that reports a failure is written *)
RECURSIVE flag_sweep_failing_after_write(_, _, _, _, _)
flag_sweep_failing_after_write(queue, table, t, failAt, writes) ==
    IF queue = <<>>
    THEN [table |-> table, outcome |-> "Ok", writes |-> writes]
    ELSE LET loan == Head(queue) IN
         IF index_panics(loan)
         THEN [table |-> table, outcome |-> "panic", writes |-> writes]
         ELSE IF is_overdue(loan, t)
         THEN IF failAt = 1
              THEN [table |-> save_loan(table, flagged_loan(loan)),
                    outcome |-> "StorageError", writes |-> writes]
              ELSE flag_sweep_failing_after_write(
                       Tail(queue), save_loan(table, flagged_loan(loan)),
                       t, IF failAt = 0 THEN 0 ELSE failAt - 1, writes + 1)
         ELSE flag_sweep_failing_after_write(Tail(queue), table, t, failAt, writes)

(* loan.rs:73-78: the loop over the loaded rows.  failAt is the ordinal of
   the save_loan call that fails (0: none fails); writes counts the
   save_loan calls that succeeded. *)
RECURSIVE flag_sweep(_, _, _, _, _)
flag_sweep(queue, table, t, failAt, writes) ==
    IF queue = <<>>
    THEN [table |-> table, outcome |-> "Ok", writes |-> writes]
    ELSE LET loan == Head(queue) IN
         IF index_panics(loan)
         THEN [table |-> table, outcome |-> "panic", writes |-> writes]
         ELSE IF is_overdue(loan, t)
         THEN IF failAt = 1
              THEN [table |-> table, outcome |-> "StorageError", writes |-> writes]
              ELSE flag_sweep(Tail(queue), save_loan(table, flagged_loan(loan)),
                              t, IF failAt = 0 THEN 0 ELSE failAt - 1, writes + 1)
         ELSE flag_sweep(Tail(queue), table, t, failAt, writes)

----------------------------------------------------------------------------
(* The handlers, one call at a time (the CLI: one command per process run) *)

Workers == {"w1", "w2"}

Idle == [loan |-> None, queue |-> <<>>, t |-> None]

NoCall ==
    [op |-> "none", arg |-> <<>>, at |-> <<>>, outcome |-> "none",
     ret |-> <<>>, writes |-> 0, before |-> EmptyTable, again |-> FALSE]

(* The record of a call: its operation, arguments, the clock readings it
   made, how it ended, what it returned, how many rows it wrote, the table
   before it, and whether it repeats the call before it (the same operation
   and arguments, which returned Ok, with the clock at the same reading). *)
Call(op, arg, at, outcome, ret, writes) ==
    [op |-> op, arg |-> arg, at |-> at, outcome |-> outcome, ret |-> ret,
     writes |-> writes, before |-> loans,
     again |-> (last.op = op /\ last.arg = arg /\ last.outcome = "Ok" /\ last.at = at)]

Init ==
    /\ now = 0
    /\ loans = EmptyTable
    /\ last = NoCall
    /\ pc = [w \in Workers |-> "idle"]
    /\ loc = [w \in Workers |-> Idle]
    /\ users = EmptyTable

(* What a later reading of the clock may show *)
ClockAfter == {t \in {now, now + ClockStep} : t <= MaxTime}

(* Time passes *)
Tick ==
    /\ now + ClockStep <= MaxTime
    /\ now' = now + ClockStep
    /\ UNCHANGED <<loans, last, pc, loc, users>>

(* mutant: the row is written although the save reports a failure *)
CreateLoan_written_despite_failure(id, borrower_id, lender_id, principal, interest_rate, duration_months, save_fails) ==
    /\ id \in LoanIds \ DOMAIN loans
    /\ id = Cardinality(DOMAIN loans) + 1
    /\ LET loan == new_loan(id, borrower_id, lender_id, principal, interest_rate,
                            duration_months, now)
       IN  /\ loans' = save_loan(loans, loan)
           /\ IF save_fails
              THEN last' = Call("create_loan", <<duration_months>>, <<now>>,
                                "StorageError", <<>>, 0)
              ELSE last' = Call("create_loan", <<duration_months>>, <<now>>,
                                "Ok", <<id>>, 1)
    /\ UNCHANGED <<now, pc, loc, users>>

(* loan.rs:16-44; id is the fresh Uuid::new_v4().  The handlers only compare
   ids for equality, so which unused id it is makes no difference: the next
   one is taken. *)
CreateLoan(id, borrower_id, lender_id, principal, interest_rate, duration_months, save_fails) ==
    /\ id \in LoanIds \ DOMAIN loans
    /\ id = Cardinality(DOMAIN loans) + 1
    /\ LET loan == new_loan(id, borrower_id, lender_id, principal, interest_rate,
                            duration_months, now)
       IN  IF save_fails
           THEN /\ loans' = loans
                /\ last' = Call("create_loan", <<duration_months>>, <<now>>,
                                "StorageError", <<>>, 0)
           ELSE /\ loans' = save_loan(loans, loan)
                /\ last' = Call("create_loan", <<duration_months>>, <<now>>,
                                "Ok", <<id>>, 1)
    /\ UNCHANGED <<now, pc, loc, users>>

(* loan.rs:46-59; t2 is the second reading of the clock (line 51), taken
   after the first (line 50), which is the current time *)
UpdateRepayment(loan_id, load_fails, save_fails) ==
    \E t2 \in ClockAfter :
    LET found == load_loan(loans, loan_id) IN
    /\ IF load_fails
       THEN /\ t2 = now /\ ~save_fails
            /\ last' = Call("update_repayment", <<loan_id>>, <<>>,
                            "StorageError", <<>>, 0)
            /\ UNCHANGED <<now, loans>>
       ELSE IF found = None
       THEN /\ t2 = now /\ ~save_fails
            /\ last' = Call("update_repayment", <<loan_id>>, <<>>,
                            "QueryReturnedNoRows", <<>>, 0)
            /\ UNCHANGED <<now, loans>>
       ELSE IF schedule_last(found[1]) = None
       THEN /\ ~save_fails
            /\ now' = t2
            /\ last' = Call("update_repayment", <<loan_id>>, <<now, t2>>,
                            "panic", <<>>, 0)
            /\ UNCHANGED loans
       ELSE /\ now' = t2
            /\ IF save_fails
               THEN /\ last' = Call("update_repayment", <<loan_id>>, <<now, t2>>,
                                    "StorageError", <<>>, 0)
                    /\ UNCHANGED loans
               ELSE /\ last' = Call("update_repayment", <<loan_id>>, <<now, t2>>,
                                    "Ok", <<>>, 1)
                    /\ loans' = save_loan(loans, repaid_loan(found[1], now, t2))
    /\ UNCHANGED <<pc, loc, users>>

(* loan.rs:69-80; the function returns Result<()>: its Ok value is ().
   The sweep calls save_loan at most once for each loan that is overdue, so
   failAt is at most their number. *)
FlagOverdues(load_fails, failAt) ==
    /\ failAt <= Cardinality({id \in DOMAIN loans :
                     ~index_panics(loans[id]) /\ is_overdue(loans[id], now)})
    /\ IF load_fails
       THEN /\ failAt = 0
            /\ last' = Call("flag_overdues", <<>>, <<>>, "StorageError", <<>>, 0)
            /\ UNCHANGED loans
       ELSE \E order \in RowOrders(loans) :
            LET r == flag_sweep(load_all_loans(loans, order), loans, now, failAt, 0)
            IN  /\ loans' = r.table
                /\ last' = Call("flag_overdues", <<>>, <<now>>, r.outcome, <<>>,
                                r.writes)
    /\ UNCHANGED <<now, pc, loc, users>>

Next ==
    \/ Tick
    \/ \E id \in LoanIds, b \in Borrowers, l \in Lenders, p \in Principals,
          r \in InterestRates, d \in Durations, f \in BOOLEAN :
          CreateLoan(id, b, l, p, r, d, f)
    \/ \E id \in LoanIds, lf \in BOOLEAN, sf \in BOOLEAN :
          UpdateRepayment(id, lf, sf)
    \/ \E lf \in BOOLEAN, failAt \in 0..MaxLoans :
          FlagOverdues(lf, failAt)

Spec == Init /\ [][Next]_vars

(* The clock keeps advancing, and flag_overdues keeps being called by the
   caller's scheduler (the handler schedules nothing itself) without a
   failure of the storage *)
LiveSpec ==
    /\ Init /\ [][Next]_vars
    /\ WF_vars(Tick)
    /\ WF_vars(FlagOverdues(FALSE, 0))

----------------------------------------------------------------------------
(* The same handlers run by concurrent workers on one loans table (each HTTP
   worker opens its own connection, api.rs:228-236, and CLI commands run
   beside the server).  A step is one storage round trip with the local
   computation that follows it; save_loan writes the whole row
   (INSERT OR REPLACE of every column, db.rs:104-119). *)

Goto(w, label, locals) ==
    /\ pc' = [pc EXCEPT ![w] = label]
    /\ loc' = [loc EXCEPT ![w] = locals]

(* loan.rs:47-55: load_loan, then the local loan is stamped.  An unknown id
   returns the error and an empty schedule panics: the worker is idle again. *)
UpdateLoad(w, loan_id) ==
    \E t2 \in ClockAfter :
    /\ pc[w] = "idle"
    /\ LET found == load_loan(loans, loan_id) IN
       IF found = None
       THEN /\ t2 = now
            /\ UNCHANGED <<now, pc, loc>>
       ELSE IF schedule_last(found[1]) = None
       THEN /\ now' = t2
            /\ UNCHANGED <<pc, loc>>
       ELSE /\ now' = t2
            /\ Goto(w, "update_save",
                    [Idle EXCEPT !.loan = Some(repaid_loan(found[1], now, t2))])
    /\ UNCHANGED <<loans, last, users>>

(* loan.rs:57 *)
UpdateSave(w, save_fails) ==
    /\ pc[w] = "update_save"
    /\ loans' = IF save_fails THEN loans ELSE save_loan(loans, loc[w].loan[1])
    /\ Goto(w, "idle", Idle)
    /\ UNCHANGED <<now, last, users>>

(* loan.rs:70-71: the rows are loaded into a Vec, then the clock is read *)
FlagLoad(w) ==
    /\ pc[w] = "idle"
    /\ \E order \in RowOrders(loans) :
          IF order = <<>>
          THEN UNCHANGED <<pc, loc>>
          ELSE Goto(w, "flag_loop",
                    [Idle EXCEPT !.queue = load_all_loans(loans, order),
                                 !.t = Some(now)])
    /\ UNCHANGED <<now, loans, last, users>>

(* loan.rs:73-78: one iteration of the loop, on the row loaded at line 70 *)
FlagStep(w, save_fails) ==
    /\ pc[w] = "flag_loop"
    /\ LET loan == Head(loc[w].queue)
           rest == Tail(loc[w].queue)
           on   == IF rest = <<>>
                   THEN Goto(w, "idle", Idle)
                   ELSE Goto(w, "flag_loop", [loc[w] EXCEPT !.queue = rest])
       IN  IF index_panics(loan)
           THEN /\ ~save_fails
                /\ Goto(w, "idle", Idle)
                /\ UNCHANGED loans
           ELSE IF is_overdue(loan, loc[w].t[1])
           THEN IF save_fails
                THEN /\ Goto(w, "idle", Idle)
                     /\ UNCHANGED loans
                ELSE /\ loans' = save_loan(loans, flagged_loan(loan))
                     /\ on
           ELSE /\ ~save_fails
                /\ on
                /\ UNCHANGED loans
    /\ UNCHANGED <<now, last, users>>

(* create_loan is one round trip; the races are studied on MaxRacedLoans loans *)
RacedCreateLoan(id, borrower_id, lender_id, principal, interest_rate, duration_months, save_fails) ==
    /\ Cardinality(DOMAIN loans) < MaxRacedLoans
    /\ CreateLoan(id, borrower_id, lender_id, principal, interest_rate,
                  duration_months, save_fails)

ConcNext ==
    \/ Tick
    \/ \E id \in LoanIds, b \in Borrowers, l \in Lenders, p \in Principals,
          r \in InterestRates, d \in Durations, f \in BOOLEAN :
          RacedCreateLoan(id, b, l, p, r, d, f)
    \/ \E w \in Workers, id \in LoanIds : UpdateLoad(w, id)
    \/ \E w \in Workers, f \in BOOLEAN : UpdateSave(w, f)
    \/ \E w \in Workers : FlagLoad(w)
    \/ \E w \in Workers, f \in BOOLEAN : FlagStep(w, f)

ConcSpec == Init /\ [][ConcNext]_vars

----------------------------------------------------------------------------
(* RecoveryEngine (src/src/recovery.rs) and RiskScorable (src/src/models.rs).
   An f64 score is counted in tenths: 0.8 is 8, 0.7 is 7.  The literals
   0.8, 0.7, 0.4 and 0.2 are distinct doubles in that order, and a score
   given as the literal 0.7 (0.4) is the double the guard compares with. *)

(* mutant: a Defaulted loan is scored as an Overdue one *)
calculate_risk_score_of_bad_loans(loan) ==
    IF loan.status \in {"Overdue", "Defaulted"} THEN 8 ELSE 2

(* models.rs:45-54 *)
calculate_risk_score(loan) ==
    IF loan.status = "Overdue" THEN 8 ELSE 2

(* recovery.rs:13-15 *)
predict_default(loan) == calculate_risk_score(loan)

(* mutant: >= where the code has > *)
recommend_action_at_threshold(risk_score, repayment_history) ==
    IF risk_score >= 7 \/ repayment_history >= 2 THEN "EscalateToCollection"
    ELSE IF risk_score >= 4 \/ repayment_history > 0 THEN "RenegotiateTerms"
    ELSE "SendReminder"

(* recovery.rs:17-23: the arms of the match, in order *)
recommend_action(risk_score, repayment_history) ==
    IF risk_score > 7 \/ repayment_history > 2 THEN "EscalateToCollection"
    ELSE IF risk_score > 4 \/ repayment_history > 0 THEN "RenegotiateTerms"
    ELSE "SendReminder"

(* The values of Loan the scoring is applied to: every status, with and
   without a repayment date, every schedule the bounds allow *)
AnyLoans ==
    {[new_loan(id, b, l, p, r, d, t) EXCEPT !.status = s, !.last_repayment_date = lrd] :
        id \in LoanIds, b \in Borrowers, l \in Lenders, p \in Principals,
        r \in InterestRates, d \in 0..MaxDuration, t \in {0, ClockStep},
        s \in LoanStatus, lrd \in {None, Some(0), Some(ClockStep)}}

(* risk scores from 0.0 to 1.0, in tenths *)
Scores == 0..10

(* repayment_history is a usize *)
Histories == 0..MaxHistory

PredictDefault(loan) ==
    /\ last' = Call("predict_default", <<loan>>, <<>>, "Ok",
                    <<predict_default(loan)>>, 0)
    /\ UNCHANGED <<now, loans, pc, loc, users>>

RecommendAction(risk_score, repayment_history) ==
    /\ last' = Call("recommend_action", <<risk_score, repayment_history>>, <<>>,
                    "Ok", <<recommend_action(risk_score, repayment_history)>>, 0)
    /\ UNCHANGED <<now, loans, pc, loc, users>>

RecoveryNext ==
    \/ \E loan \in AnyLoans : PredictDefault(loan)
    \/ \E score \in Scores, hist \in Histories : RecommendAction(score, hist)

RecoverySpec == Init /\ [][RecoveryNext]_vars

----------------------------------------------------------------------------
(* UserManager (src/src/user.rs) over the users table of Db, and the HTTP
   handlers of src/src/api.rs that stand before UserManager and LoanTracker.
   A TEXT column written with format!("{:?}", x) holds the name of the
   variant x. *)

UserIds == 1..MaxUsers
Names == {"ann", "ben"}
UserRole == {"Borrower", "Lender"}

(* the role strings a request may carry *)
RoleStrings == {"borrower", "lender", "Borrower", "LENDER", "admin", ""}

(* format!("{:?}", v): the text of the name of an enum variant *)
format_debug(variant) == [text |-> variant]

(* mutant: a user of the same name is replaced *)
save_user_unique_name(table, user) ==
    LET kept == {i \in DOMAIN table : table[i].name # user.name}
    IN  [i \in kept \cup {user.id} |->
            IF i = user.id
            THEN [id |-> user.id, name |-> user.name, role |-> format_debug(user.role)]
            ELSE table[i]]

(* db.rs:48-54: INSERT OR REPLACE of the row (id, name, role) *)
save_user(table, user) ==
    [i \in (DOMAIN table) \cup {user.id} |->
        IF i = user.id
        THEN [id |-> user.id, name |-> user.name, role |-> format_debug(user.role)]
        ELSE table[i]]

(* db.rs:64-68: the match on the text of the role column; None is the
   InvalidColumnType error *)
parse_role(role_str) ==
    IF role_str = [text |-> "Borrower"] THEN Some("Borrower")
    ELSE IF role_str = [text |-> "Lender"] THEN Some("Lender")
    ELSE None

(* db.rs:56-77 *)
load_user(table, id) ==
    IF id \notin DOMAIN table
    THEN [outcome |-> "Ok", user |-> None]
    ELSE IF parse_role(table[id].role) = None
    THEN [outcome |-> "InvalidColumnType", user |-> None]
    ELSE [outcome |-> "Ok",
          user |-> Some([id |-> table[id].id, name |-> table[id].name,
                         role |-> parse_role(table[id].role)[1]])]

(* user.rs:22-24 *)
get_user(id) == load_user(users, id)

(* mutant: the role is matched without regard to case *)
role_of_request_ignoring_case(role) ==
    IF role \in {"borrower", "Borrower"} THEN Some("Borrower")
    ELSE IF role \in {"lender", "LENDER"} THEN Some("Lender")
    ELSE None

(* api.rs:45-49: the match on the role string of the request; None is the
   InvalidInput error *)
role_of_request(role) ==
    IF role = "borrower" THEN Some("Borrower")
    ELSE IF role = "lender" THEN Some("Lender")
    ELSE None

(* error.rs:42-54: the HTTP status of an answer *)
error_response(outcome) ==
    CASE outcome = "Ok" -> 200
      [] outcome = "Database" -> 500
      [] outcome = "AuthRequired" -> 401
      [] outcome = "InsufficientPermissions" -> 403
      [] outcome = "InvalidInput" -> 400
      [] outcome = "NotFound" -> 404

(* the identity of a session: none, or the id of the user who logged in
   (api.rs:79) *)
Sessions == {None} \cup {Some(u) : u \in UserIds}

(* mutant: the role of the user is not looked at *)
authorize_any_user(identity, get_user_fails) ==
    IF identity = None THEN "AuthRequired"
    ELSE IF get_user_fails THEN "Database"
    ELSE IF get_user(identity[1]).user = None THEN "AuthRequired"
    ELSE "Ok"

(* api.rs:127-141 and 170-184: who may create a loan or run the sweep *)
authorize(identity, get_user_fails) ==
    IF identity = None THEN "AuthRequired"
    ELSE IF get_user_fails THEN "Database"
    ELSE IF get_user(identity[1]).user = None THEN "AuthRequired"
    ELSE IF get_user(identity[1]).user[1].role # "Lender" THEN "InsufficientPermissions"
    ELSE "Ok"

(* user.rs:15-20; id is the fresh Uuid::new_v4(), the next unused one *)
RegisterUser(id, name, role, save_fails) ==
    /\ id \in UserIds \ DOMAIN users
    /\ id = Cardinality(DOMAIN users) + 1
    /\ IF save_fails
       THEN /\ users' = users
            /\ last' = Call("register_user", <<name, role>>, <<>>,
                            "StorageError", <<>>, 0)
       ELSE /\ users' = save_user(users, [id |-> id, name |-> name, role |-> role])
            /\ last' = Call("register_user", <<name, role>>, <<>>, "Ok", <<id>>, 1)
    /\ UNCHANGED <<now, loans, pc, loc>>

(* api.rs:40-55; ret is the HTTP status, followed by the id of the answer.
   A request with a bad role takes no id: id is 0 then. *)
HttpRegisterUser(id, name, role, save_fails) ==
    /\ IF role_of_request(role) = None
       THEN /\ id = 0 /\ ~save_fails
            /\ users' = users
            /\ last' = Call("http_register_user", <<name, role>>, <<>>,
                            "InvalidInput", <<error_response("InvalidInput")>>, 0)
       ELSE /\ id \in UserIds \ DOMAIN users
            /\ id = Cardinality(DOMAIN users) + 1
            /\ IF save_fails
               THEN /\ users' = users
                    /\ last' = Call("http_register_user", <<name, role>>, <<>>,
                                    "Database", <<error_response("Database")>>, 0)
               ELSE /\ users' = save_user(users, [id |-> id, name |-> name,
                                                  role |-> role_of_request(role)[1]])
                    /\ last' = Call("http_register_user", <<name, role>>, <<>>,
                                    "Ok", <<error_response("Ok"), id>>, 1)
    /\ UNCHANGED <<now, loans, pc, loc>>

(* the months of the loans made over HTTP *)
ApiMonths == {1}

(* api.rs:121-155; a request that is turned away takes no loan id: id is 0 *)
HttpCreateLoan(identity, id, borrower_id, lender_id, principal, interest_rate, months, get_user_fails, save_fails) ==
    /\ IF authorize(identity, get_user_fails) # "Ok"
       THEN /\ id = 0 /\ ~save_fails
            /\ loans' = loans
            /\ last' = Call("http_create_loan", <<identity>>, <<>>,
                            authorize(identity, get_user_fails),
                            <<error_response(authorize(identity, get_user_fails))>>, 0)
       ELSE /\ id \in LoanIds \ DOMAIN loans
            /\ id = Cardinality(DOMAIN loans) + 1
            /\ Cardinality(DOMAIN loans) < MaxApiLoans
            /\ IF save_fails
               THEN /\ loans' = loans
                    /\ last' = Call("http_create_loan", <<identity>>, <<now>>,
                                    "Database", <<error_response("Database")>>, 0)
               ELSE /\ loans' = save_loan(loans,
                                   new_loan(id, borrower_id, lender_id, principal,
                                            interest_rate, months, now))
                    /\ last' = Call("http_create_loan", <<identity>>, <<now>>,
                                    "Ok", <<error_response("Ok"), id>>, 1)
    /\ UNCHANGED <<now, pc, loc, users>>

(* api.rs:165-193 *)
HttpFlagOverdues(identity, get_user_fails, load_fails, failAt) ==
    /\ IF authorize(identity, get_user_fails) # "Ok"
       THEN /\ ~load_fails /\ failAt = 0
            /\ loans' = loans
            /\ last' = Call("http_flag_overdues", <<identity>>, <<>>,
                            authorize(identity, get_user_fails),
                            <<error_response(authorize(identity, get_user_fails))>>, 0)
       ELSE /\ failAt <= Cardinality({id \in DOMAIN loans :
                            ~index_panics(loans[id]) /\ is_overdue(loans[id], now)})
            /\ IF load_fails
               THEN /\ failAt = 0
                    /\ loans' = loans
                    /\ last' = Call("http_flag_overdues", <<identity>>, <<>>,
                                    "Database", <<error_response("Database")>>, 0)
               ELSE \E order \in RowOrders(loans) :
                    LET r == flag_sweep(load_all_loans(loans, order), loans, now,
                                        failAt, 0)
                        outcome == IF r.outcome = "StorageError"
                                   THEN "Database" ELSE r.outcome
                    IN  /\ loans' = r.table
                        /\ last' = Call("http_flag_overdues", <<identity>>, <<now>>,
                                        outcome,
                                        IF outcome = "panic" THEN <<>>
                                        ELSE <<error_response(outcome)>>,
                                        r.writes)
    /\ UNCHANGED <<now, pc, loc, users>>

ApiNext ==
    \/ Tick
    \/ \E id \in UserIds, name \in Names, role \in UserRole, f \in BOOLEAN :
          RegisterUser(id, name, role, f)
    \/ \E id \in 0..MaxUsers, name \in Names, role \in RoleStrings, f \in BOOLEAN :
          HttpRegisterUser(id, name, role, f)
    \/ \E identity \in Sessions, id \in 0..MaxLoans, b \in Borrowers, l \in Lenders,
          p \in Principals, r \in InterestRates, m \in ApiMonths,
          gf \in BOOLEAN, sf \in BOOLEAN :
          HttpCreateLoan(identity, id, b, l, p, r, m, gf, sf)
    \/ \E identity \in Sessions, gf \in BOOLEAN, lf \in BOOLEAN, failAt \in 0..MaxLoans :
          HttpFlagOverdues(identity, gf, lf, failAt)

ApiSpec == Init /\ [][ApiNext]_vars

----------------------------------------------------------------------------
(* The row of the loans table (src/src/db.rs).  LoanTracker above is
   modelled on the table as load_loan shows it; here the columns are the
   texts that save_loan writes, and the loans variable holds the rows. *)

(* Uuid::to_string, db.rs:108 *)
uuid_to_string(id) == [uuid |-> id]

(* Uuid::parse_str, db.rs:140; None is the error *)
parse_str(text) ==
    IF DOMAIN text = {"uuid"} THEN Some(text.uuid) ELSE None

(* DateTime::to_rfc3339, db.rs:113: the instant with its fraction of a
   second, at offset +00:00 *)
to_rfc3339(t) == [rfc3339 |-> t, offset |-> 0]

(* DateTime::parse_from_rfc3339 and with_timezone(&Utc), db.rs:144-146 *)
parse_from_rfc3339(text) ==
    IF DOMAIN text = {"rfc3339", "offset"}
    THEN Some(text.rfc3339 - text.offset)
    ELSE None

(* serde_json::to_string of the Vec of dates, db.rs:101: a JSON array of
   the dates in the order of the Vec *)
to_json(schedule) == [json |-> [k \in DOMAIN schedule |-> to_rfc3339(schedule[k])]]

(* serde_json::from_str, db.rs:165 *)
from_json(text) ==
    IF DOMAIN text = {"json"}
          /\ \A k \in DOMAIN text.json : parse_from_rfc3339(text.json[k]) # None
    THEN Some([k \in DOMAIN text.json |-> parse_from_rfc3339(text.json[k])[1]])
    ELSE None

(* mutant: the match has no arm for Defaulted *)
parse_status_of_tracker(status_str) ==
    IF status_str = [text |-> "Active"] THEN Some("Active")
    ELSE IF status_str = [text |-> "Overdue"] THEN Some("Overdue")
    ELSE IF status_str = [text |-> "Repaid"] THEN Some("Repaid")
    ELSE None

(* db.rs:157-163; None is the InvalidColumnType error *)
parse_status(status_str) ==
    IF status_str = [text |-> "Active"] THEN Some("Active")
    ELSE IF status_str = [text |-> "Overdue"] THEN Some("Overdue")
    ELSE IF status_str = [text |-> "Defaulted"] THEN Some("Defaulted")
    ELSE IF status_str = [text |-> "Repaid"] THEN Some("Repaid")
    ELSE None

(* db.rs:107-118: the ten columns; a NULL is the empty tuple *)
loan_to_params(loan) ==
    [id |-> uuid_to_string(loan.id),
     borrower_id |-> uuid_to_string(loan.borrower_id),
     lender_id |-> uuid_to_string(loan.lender_id),
     principal |-> loan.principal,
     interest_rate |-> loan.interest_rate,
     disbursement_date |-> to_rfc3339(loan.disbursement_date),
     start_date |-> to_rfc3339(loan.start_date),
     last_repayment_date |->
         IF loan.last_repayment_date = None
         THEN None
         ELSE Some(to_rfc3339(loan.last_repayment_date[1])),
     status |-> format_debug(loan.status),
     repayment_schedule |-> to_json(loan.repayment_schedule)]

(* db.rs:128-180: the closure that reads a row; None is an error *)
row_to_loan(row) ==
    IF \/ parse_str(row.id) = None
       \/ parse_str(row.borrower_id) = None
       \/ parse_str(row.lender_id) = None
       \/ parse_from_rfc3339(row.disbursement_date) = None
       \/ parse_from_rfc3339(row.start_date) = None
       \/ (row.last_repayment_date # None
              /\ parse_from_rfc3339(row.last_repayment_date[1]) = None)
       \/ parse_status(row.status) = None
       \/ from_json(row.repayment_schedule) = None
    THEN None
    ELSE Some([id |-> parse_str(row.id)[1],
               borrower_id |-> parse_str(row.borrower_id)[1],
               lender_id |-> parse_str(row.lender_id)[1],
               principal |-> row.principal,
               interest_rate |-> row.interest_rate,
               disbursement_date |-> parse_from_rfc3339(row.disbursement_date)[1],
               repayment_schedule |-> from_json(row.repayment_schedule)[1],
               start_date |-> parse_from_rfc3339(row.start_date)[1],
               last_repayment_date |->
                   IF row.last_repayment_date = None
                   THEN None
                   ELSE parse_from_rfc3339(row.last_repayment_date[1]),
               status |-> parse_status(row.status)[1]])

(* db.rs:100-121 on the rows: INSERT OR REPLACE under the id *)
save_loan_row(rows, loan) ==
    [i \in (DOMAIN rows) \cup {loan.id} |->
        IF i = loan.id THEN loan_to_params(loan) ELSE rows[i]]

(* db.rs:123-186 on the rows: WHERE id = ?1, then the closure *)
load_loan_row(rows, id) ==
    IF id \notin DOMAIN rows
    THEN [outcome |-> "Ok", loan |-> None]
    ELSE IF row_to_loan(rows[id]) = None
    THEN [outcome |-> "InvalidColumnType", loan |-> None]
    ELSE [outcome |-> "Ok", loan |-> row_to_loan(rows[id])]

(* The loans that are saved: every status, with and without a repayment
   date, with the longest schedule *)
RowLoans ==
    {loan \in AnyLoans :
        /\ loan.disbursement_date = 0
        /\ Len(loan.repayment_schedule) = MaxDuration
        /\ loan.last_repayment_date \in {None, Some(ClockStep)}}

SaveLoan(loan, fails) ==
    /\ IF fails
       THEN /\ loans' = loans
            /\ last' = Call("save_loan", <<loan>>, <<>>, "StorageError", <<>>, 0)
       ELSE /\ loans' = save_loan_row(loans, loan)
            /\ last' = Call("save_loan", <<loan>>, <<>>, "Ok", <<>>, 1)
    /\ UNCHANGED <<now, pc, loc, users>>

LoadLoan(id) ==
    /\ last' = Call("load_loan", <<id>>, <<>>, load_loan_row(loans, id).outcome,
                    <<load_loan_row(loans, id).loan>>, 0)
    /\ UNCHANGED <<now, loans, pc, loc, users>>

DbNext ==
    \/ \E loan \in RowLoans, fails \in BOOLEAN : SaveLoan(loan, fails)
    \/ \E id \in LoanIds : LoadLoan(id)

DbSpec == Init /\ [][DbNext]_vars

----------------------------------------------------------------------------
(* The callers of RecoveryEngine: the Recommend command of the CLI
   (src/src/main.rs) and the recommend_action handler of the API
   (src/src/api.rs), on the rows of the loans table. *)

(* mutant: the entries of the schedule are passed as the missed payments *)
recommendation_counting_schedule(loan) ==
    [risk_score |-> predict_default(loan),
     action |-> recommend_action(predict_default(loan),
                                 Len(loan.repayment_schedule))]

(* main.rs:116-117 and api.rs:212-213: the score of the loan, then the
   action for that score and 0 missed payments *)
recommendation(loan) ==
    [risk_score |-> predict_default(loan),
     action |-> recommend_action(predict_default(loan), 0)]

(* main.rs:110-124; ret is what is printed *)
CliRecommend(loan_id, load_fails) ==
    /\ LET found == load_loan_row(loans, loan_id) IN
       IF load_fails \/ found.outcome # "Ok"
       THEN last' = Call("cli_recommend", <<loan_id>>, <<>>, "StorageError", <<>>, 0)
       ELSE IF found.loan = None
       THEN last' = Call("cli_recommend", <<loan_id>>, <<>>, "NotFound", <<>>, 0)
       ELSE last' = Call("cli_recommend", <<loan_id>>, <<>>, "Ok",
                         <<recommendation(found.loan[1]).risk_score,
                           recommendation(found.loan[1]).action>>, 0)
    /\ UNCHANGED <<now, loans, pc, loc, users>>

(* api.rs:196-220; ret is the HTTP status, then the risk_score and the
   recommended_action of the answer *)
HttpRecommend(identity, loan_id, load_fails) ==
    /\ LET found == load_loan_row(loans, loan_id) IN
       IF identity = None
       THEN /\ ~load_fails
            /\ last' = Call("http_recommend", <<loan_id, identity>>, <<>>,
                            "AuthRequired", <<error_response("AuthRequired")>>, 0)
       ELSE IF load_fails \/ found.outcome # "Ok"
       THEN last' = Call("http_recommend", <<loan_id, identity>>, <<>>,
                         "Database", <<error_response("Database")>>, 0)
       ELSE IF found.loan = None
       THEN last' = Call("http_recommend", <<loan_id, identity>>, <<>>,
                         "NotFound", <<error_response("NotFound")>>, 0)
       ELSE last' = Call("http_recommend", <<loan_id, identity>>, <<>>, "Ok",
                         <<error_response("Ok"),
                           recommendation(found.loan[1]).risk_score,
                           recommendation(found.loan[1]).action>>, 0)
    /\ UNCHANGED <<now, loans, pc, loc, users>>

(* the loans the callers find: each stored once, by a save_loan *)
StoreLoan(loan) ==
    /\ loan.id = Cardinality(DOMAIN loans) + 1
    /\ SaveLoan(loan, FALSE)

CallerNext ==
    \/ \E loan \in RowLoans : StoreLoan(loan)
    \/ \E id \in LoanIds, lf \in BOOLEAN : CliRecommend(id, lf)
    \/ \E identity \in Sessions, id \in LoanIds, lf \in BOOLEAN :
          HttpRecommend(identity, id, lf)

CallerSpec == Init /\ [][CallerNext]_vars

----------------------------------------------------------------------------
(* Properties *)

FinalEntry(schedule) == schedule[Len(schedule)]

Ascending(schedule) ==
    \A k \in 1..(Len(schedule) - 1) : schedule[k] < schedule[k + 1]

(* C1: a successful update_repayment leaves the loan Repaid if the clock
   reading it compared was strictly after the last schedule entry, and
   Active otherwise, whatever the status was before. *)
C1_RepaymentStatusFromClock ==
    (last.op = "update_repayment" /\ last.outcome = "Ok") =>
        LET id == last.arg[1]
            final == FinalEntry(last.before[id].repayment_schedule)
        IN  loans[id].status = IF last.at[2] > final THEN "Repaid" ELSE "Active"

(* an Overdue loan repaid exactly on its last due date is Active again *)
C1_Witness ==
    /\ last.op = "update_repayment" /\ last.outcome = "Ok"
    /\ last.before[last.arg[1]].status = "Overdue"
    /\ last.at[2] = FinalEntry(last.before[last.arg[1]].repayment_schedule)
    /\ loans[last.arg[1]].status = "Active"

Qualifies(loan, t) ==
    /\ loan.status = "Active"
    /\ Len(loan.repayment_schedule) > 0
    /\ loan.repayment_schedule[1] < t

(* C2: flag_overdues changes a status only of an Active loan whose first
   schedule entry is strictly before the clock reading of the call, and only
   to Overdue; a call that returns Ok has flagged every such loan. *)
C2_FlagsExactlyActivePastFirstDue ==
    (last.op = "flag_overdues" /\ last.at # <<>>) =>
        /\ DOMAIN loans = DOMAIN last.before
        /\ \A id \in DOMAIN loans :
              loans[id].status # last.before[id].status =>
                  /\ Qualifies(last.before[id], last.at[1])
                  /\ loans[id].status = "Overdue"
        /\ last.outcome = "Ok" =>
              \A id \in DOMAIN loans :
                  Qualifies(last.before[id], last.at[1]) =>
                      loans[id].status = "Overdue"

(* one loan is flagged, and one whose first due date is today is not *)
C2_Witness ==
    /\ last.op = "flag_overdues" /\ last.outcome = "Ok"
    /\ \E a, b \in DOMAIN loans :
          /\ last.before[a].status = "Active" /\ loans[a].status = "Overdue"
          /\ last.before[b].status = "Active" /\ loans[b].status = "Active"
          /\ last.before[b].repayment_schedule[1] = last.at[1]

C4_RepaymentDateNeverErased ==
    [][\A id \in DOMAIN loans :
          loans[id].last_repayment_date # None =>
              loans'[id].last_repayment_date # None]_vars

(* C5: a loan created with duration_months >= 1 has a schedule of exactly
   duration_months entries, the k-th 30*k days after the disbursement date,
   strictly ascending. *)
C5_ScheduleOfCreatedLoan ==
    (last.op = "create_loan" /\ last.outcome = "Ok" /\ last.arg[1] >= 1) =>
        LET loan == loans[last.ret[1]]
            schedule == loan.repayment_schedule
        IN  /\ Len(schedule) = last.arg[1]
            /\ \A k \in 1..Len(schedule) :
                  schedule[k] = loan.disbursement_date + 30 * k
            /\ Ascending(schedule)

(* a loan of two installments has been created *)
C5_Witness ==
    /\ last.op = "create_loan" /\ last.outcome = "Ok" /\ last.arg[1] >= 2
    /\ Len(loans[last.ret[1]].repayment_schedule) >= 2

(* C6: create_loan with duration_months <= 0 ends with InvalidInput and
   stores nothing (a failure of the storage apart). *)
C6_NonPositiveDurationRejected ==
    (last.op = "create_loan" /\ last.arg[1] <= 0 /\ last.outcome # "StorageError") =>
        (last.outcome = "InvalidInput" /\ loans = last.before)

(* C7: every stored loan has a non-empty, strictly ascending schedule, and
   no call changes the schedule of a loan that was stored before it. *)
C7_ScheduleNonEmptyAscendingFixed ==
    \A id \in DOMAIN loans :
        /\ Len(loans[id].repayment_schedule) >= 1
        /\ Ascending(loans[id].repayment_schedule)
        /\ id \in DOMAIN last.before =>
              loans[id].repayment_schedule = last.before[id].repayment_schedule

(* C8: every call of flag_overdues and of update_repayment returns, with Ok
   or with an error value; none panics. *)
C8_CallsReturn ==
    (last.op \in {"flag_overdues", "update_repayment"}) =>
        last.outcome \in {"Ok", "StorageError", "QueryReturnedNoRows"}

(* C9: a flag_overdues call that follows a flag_overdues call that returned
   Ok, with no call and no advance of the clock between them, writes no row
   and leaves the table as it is. *)
C9_SecondSweepChangesNothing ==
    [][(/\ last.op = "flag_overdues" /\ last.outcome = "Ok" /\ last.at = <<now>>
        /\ now' = now
        /\ last'.op = "flag_overdues")
       => (loans' = loans /\ last'.writes = 0)]_vars

(* a second sweep has passed over a loan the first one had to deal with *)
C9_Witness ==
    /\ last.op = "flag_overdues" /\ last.outcome = "Ok" /\ last.again
    /\ \E id \in DOMAIN loans :
          /\ loans[id].status = "Overdue"
          /\ loans[id].repayment_schedule[1] < last.at[1]

(* C10: flag_overdues returns the number of loans it changed to Overdue. *)
C10_ReturnsFlaggedCount ==
    (last.op = "flag_overdues" /\ last.outcome = "Ok") =>
        last.ret = <<Cardinality({id \in DOMAIN loans :
                        /\ last.before[id].status # "Overdue"
                        /\ loans[id].status = "Overdue"})>>

(* C11: update_repayment reads the clock once: after a call that returned
   Ok the loan is Repaid exactly if the last_repayment_date it stored is
   strictly after the last schedule entry. *)
C11_StatusFromStoredDate ==
    (last.op = "update_repayment" /\ last.outcome = "Ok") =>
        LET loan == loans[last.arg[1]]
        IN  (loan.status = "Repaid") <=>
                (loan.last_repayment_date[1] > FinalEntry(loan.repayment_schedule))

(* C12: a step changes the last_repayment_date of a loan exactly if it is
   an update_repayment of that loan that returns Ok, and then to the time of
   the call; a new loan has none; a loan repaid at the instant it was
   disbursed is Active.  So a loan has no last_repayment_date exactly if no
   update_repayment of it has returned Ok. *)
C12_RepaymentDateSetByRepaymentOnly ==
    [][\A id \in DOMAIN loans' :
          LET repaid == /\ last' # last
                        /\ last'.op = "update_repayment"
                        /\ last'.outcome = "Ok"
                        /\ last'.arg = <<id>>
              before == IF id \in DOMAIN loans
                        THEN loans[id].last_repayment_date
                        ELSE None
          IN  /\ loans'[id].last_repayment_date =
                     IF repaid THEN Some(now) ELSE before
              /\ (repaid /\ now' = loans[id].disbursement_date) =>
                     loans'[id].status = "Active"]_vars

(* a loan repaid at the instant it was disbursed, beside one never repaid *)
C12_Witness ==
    /\ last.op = "update_repayment" /\ last.outcome = "Ok"
    /\ LET loan == loans[last.arg[1]]
       IN  /\ last.at = <<loan.disbursement_date, loan.disbursement_date>>
           /\ loan.status = "Active"
           /\ loan.last_repayment_date = Some(loan.disbursement_date)
    /\ \E other \in DOMAIN loans : loans[other].last_repayment_date = None

(* C13: update_repayment of an id that is not stored ends with NotFound and
   leaves the table as it was (a failure of the storage apart). *)
C13_UnknownLoanIsNotFound ==
    (/\ last.op = "update_repayment"
     /\ last.arg[1] \notin DOMAIN last.before
     /\ last.outcome # "StorageError") =>
        (last.outcome = "NotFound" /\ loans = last.before)

(* C14: the loan stored by a create_loan that returned Ok is Active, has no
   last_repayment_date, and its disbursement_date and start_date are both
   the time of the call. *)
C14_NewLoanIsActiveUnpaidStartedNow ==
    (last.op = "create_loan" /\ last.outcome = "Ok") =>
        LET loan == loans[last.ret[1]]
        IN  /\ loan.status = "Active"
            /\ loan.last_repayment_date = None
            /\ loan.disbursement_date = last.at[1]
            /\ loan.start_date = loan.disbursement_date

(* a loan has been created after the clock had advanced *)
C14_Witness ==
    /\ last.op = "create_loan" /\ last.outcome = "Ok" /\ last.at[1] > 0
    /\ loans[last.ret[1]].start_date = last.at[1]
    /\ loans[last.ret[1]].status = "Active"

(* C15: every stored loan is Active, Overdue or Repaid: no call of
   create_loan, update_repayment or flag_overdues writes Defaulted. *)
C15_NeverDefaulted ==
    \A id \in DOMAIN loans : loans[id].status \in {"Active", "Overdue", "Repaid"}

(* the sweep has flagged a loan beside a Repaid one *)
C15_Witness ==
    /\ last.op = "flag_overdues" /\ last.writes > 0
    /\ \E a, b \in DOMAIN loans :
          /\ last.before[a].status = "Active" /\ loans[a].status = "Overdue"
          /\ loans[b].status = "Repaid"

(* C16: update_repayment and flag_overdues leave the id, borrower_id,
   lender_id, principal, interest_rate, disbursement_date and start_date of
   every stored loan as they were; each loan is stored under its id, with
   the start_date equal to the disbursement_date as at its creation. *)
C16_IdentityAndTermsFixed ==
    /\ \A id \in DOMAIN loans :
          /\ loans[id].id = id
          /\ loans[id].start_date = loans[id].disbursement_date
    /\ (last.op \in {"update_repayment", "flag_overdues"}) =>
          \A id \in DOMAIN last.before :
              /\ id \in DOMAIN loans
              /\ \A f \in {"id", "borrower_id", "lender_id", "principal",
                           "interest_rate", "disbursement_date", "start_date"} :
                    loans[id][f] = last.before[id][f]

(* a loan that was flagged has been repaid, later than it was created *)
C16_Witness ==
    /\ last.op = "update_repayment" /\ last.outcome = "Ok"
    /\ last.before[last.arg[1]].status = "Overdue"
    /\ last.at[1] > loans[last.arg[1]].start_date
    /\ loans[last.arg[1]].status # "Overdue"

(* C17: flag_overdues leaves every Overdue, Repaid or Defaulted loan exactly
   as it was, and changes nothing but the status of any other loan. *)
C17_SweepChangesStatusOnly ==
    (last.op = "flag_overdues") =>
        /\ DOMAIN loans = DOMAIN last.before
        /\ \A id \in DOMAIN last.before :
              IF last.before[id].status \in {"Overdue", "Repaid", "Defaulted"}
              THEN loans[id] = last.before[id]
              ELSE [loans[id] EXCEPT !.status = last.before[id].status]
                       = last.before[id]

(* the sweep has flagged a loan that has a last_repayment_date and passed
   over a Repaid loan whose first due date is past *)
C17_Witness ==
    /\ last.op = "flag_overdues" /\ last.outcome = "Ok"
    /\ \E a, b \in DOMAIN loans :
          /\ last.before[a].status = "Active" /\ loans[a].status = "Overdue"
          /\ loans[a].last_repayment_date # None
          /\ last.before[b].status = "Repaid"
          /\ last.before[b].repayment_schedule[1] < last.at[1]

(* C18: the risk score of a loan is 0.8 if its status is Overdue and 0.2 for
   every other status, whatever its other fields are. *)
C18_RiskScoreFromStatusAlone ==
    (last.op = "predict_default") =>
        last.ret = <<IF last.arg[1].status = "Overdue" THEN 8 ELSE 2>>

(* a Defaulted loan with a repayment date has been scored 0.2 *)
C18_Witness ==
    /\ last.op = "predict_default"
    /\ last.arg[1].status = "Defaulted"
    /\ last.arg[1].last_repayment_date # None
    /\ last.ret = <<2>>

(* C19: recommend_action gives EscalateToCollection if score > 0.7 or
   missed > 2, else RenegotiateTerms if score > 0.4 or missed > 0, else
   SendReminder; so (0.8,0) and (0.1,3) escalate, (0.5,0) renegotiates,
   (0.2,0) reminds, and score 0.7, score 0.4 and missed 2 stay below the
   stricter guard. *)
C19_OrderedGuards ==
    (last.op = "recommend_action") =>
        LET score == last.arg[1]
            missed == last.arg[2]
            action == last.ret[1]
        IN  /\ (score > 7 \/ missed > 2) => action = "EscalateToCollection"
            /\ (~(score > 7 \/ missed > 2) /\ (score > 4 \/ missed > 0)) =>
                   action = "RenegotiateTerms"
            /\ (~(score > 7 \/ missed > 2) /\ ~(score > 4 \/ missed > 0)) =>
                   action = "SendReminder"
            /\ (<<score, missed>> \in {<<8, 0>>, <<1, 3>>}) =>
                   action = "EscalateToCollection"
            /\ (<<score, missed>> = <<5, 0>>) => action = "RenegotiateTerms"
            /\ (<<score, missed>> = <<2, 0>>) => action = "SendReminder"
            /\ (score = 7 /\ missed <= 2) => action # "EscalateToCollection"
            /\ (score = 4 /\ missed = 0) => action = "SendReminder"
            /\ (missed = 2 /\ score <= 7) => action = "RenegotiateTerms"

(* score 0.7 with 2 missed payments is renegotiated *)
C19_Witness ==
    /\ last.op = "recommend_action"
    /\ last.arg = <<7, 2>>
    /\ last.ret = <<"RenegotiateTerms">>

(* C20: every loan stored before a call is found by load_loan after it; a
   create_loan that returned Ok has added one loan, under an id that was not
   stored, and left every other loan as it was. *)
C20_LoansAreKept ==
    /\ \A id \in DOMAIN last.before : load_loan(loans, id) # None
    /\ (last.op = "create_loan" /\ last.outcome = "Ok") =>
          LET id == last.ret[1]
          IN  /\ id \notin DOMAIN last.before
              /\ load_loan(loans, id) # None
              /\ DOMAIN loans = (DOMAIN last.before) \cup {id}
              /\ \A other \in DOMAIN last.before :
                    loans[other] = last.before[other]

(* a second loan has been created beside one that had been repaid *)
C20_Witness ==
    /\ last.op = "create_loan" /\ last.outcome = "Ok"
    /\ \E other \in DOMAIN last.before :
          /\ last.before[other].last_repayment_date # None
          /\ loans[other] = last.before[other]

(* C21: a create_loan or update_repayment that ends with the error of the
   storage has returned nothing else, written no row, and left the table as
   it was: no loan is stored by the create, and the loan of the repayment
   keeps its status and last_repayment_date. *)
C21_StorageFailureHasNoEffect ==
    (last.op \in {"create_loan", "update_repayment"} /\ last.outcome = "StorageError") =>
        /\ loans = last.before
        /\ last.writes = 0
        /\ last.ret = <<>>

(* the save of a repayment of an Overdue loan has failed, after the local
   copy was stamped *)
C21_Witness ==
    /\ last.op = "update_repayment" /\ last.outcome = "StorageError"
    /\ last.at # <<>>
    /\ last.before[last.arg[1]].status = "Overdue"
    /\ loans[last.arg[1]].status = "Overdue"
    /\ loans[last.arg[1]].last_repayment_date = None

(* C22: register_user ends with Ok unless the storage fails, and then the
   user it names is stored under the id it returned; a step changes the
   users table only by adding one user under an id that was not stored; every
   user stored before a step is found by load_user after it, with the same
   name and role.  Users of the same name are stored side by side. *)
C22_RegisterAddsOneUser ==
    [][/\ \A id \in DOMAIN users :
             /\ load_user(users, id).user # None
             /\ load_user(users', id) = load_user(users, id)
       /\ (users' # users) =>
             /\ last'.op \in {"register_user", "http_register_user"}
             /\ last'.outcome = "Ok"
             /\ LET id == last'.ret[Len(last'.ret)]
                IN  /\ id \notin DOMAIN users
                    /\ DOMAIN users' = (DOMAIN users) \cup {id}
       /\ (last'.op = "register_user") =>
             /\ last'.outcome \in {"Ok", "StorageError"}
             /\ (last'.outcome = "Ok") =>
                   load_user(users', last'.ret[1]) =
                       [outcome |-> "Ok",
                        user |-> Some([id |-> last'.ret[1], name |-> last'.arg[1],
                                       role |-> last'.arg[2]])]]_vars

(* a second user of the same name, with another role, has been registered *)
C22_Witness ==
    /\ last.op = "register_user" /\ last.outcome = "Ok"
    /\ \E other \in DOMAIN users :
          /\ other # last.ret[1]
          /\ load_user(users, other).user[1].name = last.arg[1]
          /\ load_user(users, other).user[1].role # last.arg[2]
          /\ load_user(users, last.ret[1]).user[1].name = last.arg[1]

(* C23: the HTTP register_user with the role "borrower" or "lender" answers
   200 with the id of the user it stored with that role (500 if the storage
   fails); with any other role string it answers 400 for InvalidInput and
   the users table is as it was. *)
C23_HttpRegisterRoleStrings ==
    [][(last'.op = "http_register_user") =>
          LET role == last'.arg[2] IN
          IF role \in {"borrower", "lender"}
          THEN \/ /\ last'.outcome = "Ok"
                  /\ Len(last'.ret) = 2 /\ last'.ret[1] = 200
                  /\ load_user(users', last'.ret[2]).user =
                         Some([id |-> last'.ret[2], name |-> last'.arg[1],
                               role |-> IF role = "borrower"
                                        THEN "Borrower" ELSE "Lender"])
               \/ /\ last'.outcome = "Database"
                  /\ last'.ret = <<500>>
                  /\ users' = users
          ELSE /\ last'.outcome = "InvalidInput"
               /\ last'.ret = <<400>>
               /\ users' = users]_vars

(* a request with the role "Borrower" has been answered 400 *)
C23_Witness ==
    /\ last.op = "http_register_user" /\ last.arg[2] = "Borrower"
    /\ last.ret = <<400>>
    /\ DOMAIN users # {}
    /\ \A id \in DOMAIN users : load_user(users, id).user[1].name # last.arg[1]

(* C26: an HTTP create_loan or flag_overdues changes the loans table only
   if the identity of the session is the id of a stored user whose role is
   Lender; without an identity or with the id of no stored user it answers
   401 for AuthRequired, with the id of a Borrower 403 for
   InsufficientPermissions, and the loans table is as it was (a failure to
   read the user answers 500 and changes nothing either). *)
C26_OnlyLendersCreateAndSweep ==
    (last.op \in {"http_create_loan", "http_flag_overdues"}) =>
        LET identity == last.arg[1]
            found == IF identity = None THEN None ELSE get_user(identity[1]).user
        IN  /\ (loans # last.before) =>
                   (found # None /\ found[1].role = "Lender")
            /\ IF found = None
               THEN \/ /\ last.outcome = "AuthRequired"
                       /\ last.ret = <<401>>
                    \/ /\ identity # None
                       /\ last.outcome = "Database"
                       /\ last.ret = <<500>>
               ELSE IF found[1].role # "Lender"
               THEN \/ /\ last.outcome = "InsufficientPermissions"
                       /\ last.ret = <<403>>
                    \/ /\ last.outcome = "Database"
                       /\ last.ret = <<500>>
               ELSE last.outcome \notin {"AuthRequired", "InsufficientPermissions"}

(* the sweep asked for by a Borrower has left an Active loan past its first
   due date as it was *)
C26_Witness ==
    /\ last.op = "http_flag_overdues" /\ last.outcome = "InsufficientPermissions"
    /\ get_user(last.arg[1][1]).user[1].role = "Borrower"
    /\ \E id \in DOMAIN loans :
          /\ loans[id].status = "Active"
          /\ loans[id].repayment_schedule[1] < now

(* C24: load_loan after a save_loan of the same id gives the loan that was
   saved, equal in every field (the status, the optional
   last_repayment_date, the schedule entry by entry), whatever row the id
   had before; the other ids load as before the save; every stored row
   loads without error.  So a load gives the loan of the latest save. *)
C24_SaveLoadRoundTrip ==
    /\ \A id \in DOMAIN loans :
          /\ load_loan_row(loans, id).outcome = "Ok"
          /\ load_loan_row(loans, id).loan # None
          /\ load_loan_row(loans, id).loan[1].id = id
    /\ (last.op = "save_loan" /\ last.outcome = "Ok") =>
          /\ load_loan_row(loans, last.arg[1].id) =
                 [outcome |-> "Ok", loan |-> Some(last.arg[1])]
          /\ \A other \in LoanIds \ {last.arg[1].id} :
                 load_loan_row(loans, other) = load_loan_row(last.before, other)
    /\ (last.op = "load_loan") =>
          (last.ret[1] = None <=> last.arg[1] \notin DOMAIN loans)

(* a Defaulted loan with a repayment date and a schedule of several entries
   has been saved over an Active one of the same id, beside another loan *)
C24_Witness ==
    /\ last.op = "save_loan" /\ last.outcome = "Ok"
    /\ last.arg[1].status = "Defaulted"
    /\ last.arg[1].last_repayment_date # None
    /\ Len(last.arg[1].repayment_schedule) >= 2
    /\ last.arg[1].id \in DOMAIN last.before
    /\ load_loan_row(last.before, last.arg[1].id).loan[1].status = "Active"
    /\ load_loan_row(loans, last.arg[1].id).loan[1].status = "Defaulted"
    /\ DOMAIN loans # {last.arg[1].id}

(* C25: a step changes the status of a stored loan only from Active to
   Overdue, in a flag_overdues, or from Active or Overdue to Repaid or from
   Overdue to Active, in an update_repayment of that loan; a step in which
   only the clock advances changes no loan. *)
C25_StatusTransitions ==
    [][/\ \A id \in DOMAIN loans :
             (loans'[id].status # loans[id].status) =>
                 \/ /\ loans[id].status = "Active"
                    /\ loans'[id].status = "Overdue"
                    /\ last'.op = "flag_overdues"
                 \/ /\ <<loans[id].status, loans'[id].status>> \in
                           {<<"Active", "Repaid">>, <<"Overdue", "Repaid">>,
                            <<"Overdue", "Active">>}
                    /\ last'.op = "update_repayment"
                    /\ last'.arg = <<id>>
       /\ (last' = last) => (loans' = loans)]_vars

(* a loan is still Active past its first due date: no sweep was called
   since it was created *)
C25_Witness ==
    /\ last.op = "create_loan" /\ last.outcome = "Ok"
    /\ loans[last.ret[1]].status = "Active"
    /\ Len(loans[last.ret[1]].repayment_schedule) >= 1
    /\ loans[last.ret[1]].repayment_schedule[1] < now

(* C27: under any interleaving of the steps of flag_overdues and
   update_repayment, no write changes a stored status from Repaid to
   Overdue. *)
C27_RepaidNeverOverdue ==
    [][\A id \in DOMAIN loans :
          loans[id].status = "Repaid" => loans'[id].status # "Overdue"]_vars

(* C28: after a flag_overdues that ended with the error of the storage in
   its loop, every loan is either as it was or as it was but Overdue, the
   latter only where it qualified; the loans changed are those of the saves
   that succeeded, and a loan that qualified is left as it was. *)
C28_FailedSweepIsPerLoan ==
    (last.op = "flag_overdues" /\ last.outcome = "StorageError" /\ last.at # <<>>) =>
        /\ DOMAIN loans = DOMAIN last.before
        /\ \A id \in DOMAIN loans :
              \/ loans[id] = last.before[id]
              \/ /\ Qualifies(last.before[id], last.at[1])
                 /\ loans[id] = [last.before[id] EXCEPT !.status = "Overdue"]
        /\ Cardinality({id \in DOMAIN loans : loans[id] # last.before[id]})
               = last.writes
        /\ \E id \in DOMAIN loans :
              /\ Qualifies(last.before[id], last.at[1])
              /\ loans[id] = last.before[id]

(* the second save of a sweep has failed: one loan is flagged, one is not *)
C28_Witness ==
    /\ last.op = "flag_overdues" /\ last.outcome = "StorageError"
    /\ last.writes = 1
    /\ \E a, b \in DOMAIN loans :
          /\ last.before[a].status = "Active" /\ loans[a].status = "Overdue"
          /\ Qualifies(last.before[b], last.at[1]) /\ loans[b].status = "Active"

InWindow(loan) ==
    /\ Len(loan.repayment_schedule) >= 1
    /\ loan.repayment_schedule[1] < now
    /\ now <= FinalEntry(loan.repayment_schedule)

(* C29: while the clock is after the first schedule entry of a loan and not
   after its last, an update_repayment can set the loan Active if it is
   Overdue, and a flag_overdues can set it Overdue if it is Active, whatever
   its last_repayment_date: the two can follow each other without end. *)
C29_OverdueAndActiveAlternate ==
    \A id \in DOMAIN loans :
        InWindow(loans[id]) =>
            /\ (loans[id].status = "Overdue") =>
                   ENABLED (/\ UpdateRepayment(id, FALSE, FALSE)
                            /\ now' = now
                            /\ loans'[id].status = "Active")
            /\ (loans[id].status = "Active") =>
                   ENABLED (/\ FlagOverdues(FALSE, 0)
                            /\ loans'[id].status = "Overdue")

(* a loan that was repaid, then flagged, has been repaid again and is
   Active, with the clock still before its last due date *)
C29_Witness ==
    /\ last.op = "update_repayment" /\ last.outcome = "Ok"
    /\ last.before[last.arg[1]].status = "Overdue"
    /\ last.before[last.arg[1]].last_repayment_date # None
    /\ loans[last.arg[1]].status = "Active"
    /\ InWindow(loans[last.arg[1]])

(* C30: if the clock keeps advancing and flag_overdues keeps being called,
   every Active loan with a non-empty schedule whose first due date is past
   becomes Overdue, unless an update_repayment of it comes first; and an
   Overdue loan stays Overdue until an update_repayment of it. *)
C30_ActiveLoanEventuallyOverdue ==
    /\ \A id \in LoanIds :
          (/\ id \in DOMAIN loans
           /\ loans[id].status = "Active"
           /\ Len(loans[id].repayment_schedule) >= 1
           /\ loans[id].repayment_schedule[1] < now)
          ~> (/\ id \in DOMAIN loans
              /\ \/ loans[id].status = "Overdue"
                 \/ (last.op = "update_repayment" /\ last.arg = <<id>>))
    /\ [][\A id \in DOMAIN loans :
             (loans[id].status = "Overdue" /\ loans'[id].status # "Overdue") =>
                 (last'.op = "update_repayment" /\ last'.arg = <<id>>)]_vars

(* C31: the action that the Recommend command and the recommend_action
   handler give for a stored loan is EscalateToCollection exactly if the
   status of the loan is Overdue, and SendReminder otherwise; it is never
   RenegotiateTerms. *)
C31_CallersEscalateOrRemind ==
    (last.op \in {"cli_recommend", "http_recommend"} /\ last.outcome = "Ok") =>
        LET loan == load_loan_row(loans, last.arg[1]).loan[1]
            action == last.ret[Len(last.ret)]
        IN  /\ (action = "EscalateToCollection") <=> (loan.status = "Overdue")
            /\ (action = "SendReminder") <=> (loan.status # "Overdue")
            /\ action # "RenegotiateTerms"

(* the API has answered SendReminder for a Defaulted loan that has a
   repayment date *)
C31_Witness ==
    /\ last.op = "http_recommend" /\ last.outcome = "Ok"
    /\ load_loan_row(loans, last.arg[1]).loan[1].status = "Defaulted"
    /\ load_loan_row(loans, last.arg[1]).loan[1].last_repayment_date # None
    /\ last.ret = <<200, 2, "SendReminder">>

====
